---- MODULE Spec2Model ----
(***************************************************************************)
(* Japanese context analysis of the universal charset detector             *)
(* (extensions/universalchardet/src/base/JpCntx.cpp).                       *)
(*                                                                         *)
(* One analyzer object (SJISContextAnalysis or EUCJPContextAnalysis) is    *)
(* modelled: its fields, and one action per public operation, HandleData,  *)
(* Reset and GetConfidence.  Bytes are integers 0..255; a buffer is a      *)
(* sequence of bytes, C offset i being element i+1.                        *)
(***************************************************************************)
EXTENDS Integers, Sequences, FiniteSets

VARIABLES
  enc,                 \* which GetOrder the object dispatches to: "SJIS" or "EUCJP"
  mTotalRel,           \* uint32_t mTotalRel
  mRelSample,          \* uint32_t mRelSample[NUM_OF_CATEGORY]
  mNeedToSkipCharNum,  \* uint32_t mNeedToSkipCharNum
  mLastCharOrder,      \* int32_t  mLastCharOrder
  mDone,               \* bool     mDone
  mDataThreshold,      \* uint32_t mDataThreshold
  call,                \* the most recent call on the object and what it did
  truePend,            \* bytes of the next buffer that belong to the character
                       \* the stream is in the middle of (0 on a boundary)
  trueLen,             \* byte length of that character (0 on a boundary)
  tracked,             \* TRUE while the bytes since construction/Reset are recorded
  stream,              \* those bytes, all buffers concatenated
  splitAt,             \* start offsets in stream of the characters a buffer
                       \* boundary fell inside
  nCalls               \* HandleData calls since construction/Reset: 0, 1, 2 = more

vars == << enc, mTotalRel, mRelSample, mNeedToSkipCharNum, mLastCharOrder,
           mDone, mDataThreshold, call, truePend, trueLen, tracked, stream,
           splitAt, nCalls >>

---------------------------------------------------------------------------
(* Bounds of the model.                                                    *)

\* MAX_REL_THRESHOLD is defined in JpCntx.h; the model takes a small value.
MAX_REL_THRESHOLD == 1
\* Longest buffer handed to one HandleData call of an object whose bytes are
\* not recorded.
MaxLen == 3
\* Most bytes recorded in stream; a recorded object is handed buffers of any
\* length that still fits.
MaxStream == 6

\* The bytes buffers are made of, per decoder.
\* Shift-JIS: 0x82 hiragana lead (0x82 0x82 is a two-byte non-hiragana
\*   character); 0xA0, 0xA1, 0xA2 are single bytes as a lead and orders
\*   1, 2, 3 as a trail.
\* EUC-JP: 0x82 single byte; 0x8F three-byte lead; 0xA1 two-byte lead, order 0
\*   as a trail; 0xA4 hiragana lead, order 3 as a trail.
Bytes(e) == IF e = "SJIS" THEN {130, 160, 161, 162} ELSE {130, 143, 161, 164}

\* The buffers of at most n bytes.
Chunks(e, n) == UNION { [1..k -> Bytes(e)] : k \in 0..n }

\* What a read one byte past the end of the buffer may yield: anything, when
\* the buffer ends with the hiragana lead byte (only then is *(str+1) read
\* past the end); otherwise nothing is read there and one value stands for all.
PastEnd(e, aBuf) ==
  IF aBuf # << >> /\ aBuf[Len(aBuf)] = (IF e = "SJIS" THEN 130 ELSE 164)
  THEN {0, 161, 255} ELSE {0}

Encodings == {"SJIS", "EUCJP"}
Categories == 0..5
\* uint32_t arithmetic wraps modulo 2^32; TLC integers are 32-bit signed, so a
\* value is reduced only when it leaves 0..2^31-1 (the model never nears 2^31).
U32(x) == IF x < 0 THEN x + 2147483647 + 2147483647 + 2 ELSE x
Max(a, b) == IF a >= b THEN a ELSE b
Min(a, b) == IF a <= b THEN a ELSE b

---------------------------------------------------------------------------
(* jp2CharContext[83][83]: row = order of the preceding character, column  *)
(* = order of the current one.  TLA+ tuples are 1-based.                   *)

jp2CharContext ==
  << <<0,0,0,2,0,0,0,0,0,0,0,0,0,0,0,0,0,0,0,0,0,0,0,0,0,0,0,0,0,0,0,0,0,0,0,0,0,0,0,1,0,0,0,0,0,0,0,0,0,0,0,0,0,0,0,0,0,0,0,0,0,0,0,0,0,0,0,1,0,0,0,1,0,0,0,0,0,0,0,0,0,0,1>>,
     <<2,4,0,4,0,3,0,4,0,3,4,4,4,2,4,3,3,4,3,2,3,3,4,2,3,3,3,2,4,1,4,3,3,1,5,4,3,4,3,4,3,5,3,0,3,5,4,2,0,3,1,0,3,3,0,3,3,0,1,1,0,4,3,0,3,3,0,4,0,2,0,3,5,5,5,5,4,0,4,1,0,3,4>>,
     <<0,0,1,0,0,0,0,0,0,0,0,0,0,0,0,0,0,0,0,0,0,0,0,0,0,0,0,0,0,0,0,0,0,0,1,0,0,0,0,0,0,0,0,0,0,0,0,0,0,0,0,0,0,0,0,0,0,0,0,0,0,0,0,0,0,0,0,0,0,0,0,0,0,0,0,0,0,0,0,0,0,0,2>>,
     <<0,4,0,5,0,5,0,4,0,4,5,4,4,3,5,3,5,1,5,3,4,3,4,4,3,4,3,3,4,3,5,4,4,3,5,5,3,5,5,5,3,5,5,3,4,5,5,3,1,3,2,0,3,4,0,4,2,0,4,2,1,5,3,2,3,5,0,4,0,2,0,5,4,4,5,4,5,0,4,0,0,4,4>>,
     <<0,0,0,0,0,0,0,0,0,0,0,0,0,0,0,0,0,0,0,0,0,0,0,0,0,0,0,0,0,0,0,0,0,0,0,0,0,0,0,0,0,0,0,0,0,0,0,0,0,0,0,0,0,0,0,0,0,0,0,0,0,0,0,0,0,0,0,0,0,0,0,0,0,0,0,0,0,0,0,0,0,0,0>>,
     <<0,3,0,4,0,3,0,3,0,4,5,4,3,3,3,3,4,3,5,4,4,3,5,4,4,3,4,3,4,4,4,4,5,3,4,4,3,4,5,5,4,5,5,1,4,5,4,3,0,3,3,1,3,3,0,4,4,0,3,3,1,5,3,3,3,5,0,4,0,3,0,4,4,3,4,3,3,0,4,1,1,3,4>>,
     <<0,0,0,0,0,0,0,0,0,0,0,0,0,0,0,0,0,0,0,0,0,0,0,0,0,0,0,0,0,0,0,0,0,0,1,0,0,0,0,0,0,0,0,0,0,0,0,0,0,0,0,0,0,0,0,0,0,0,0,0,0,0,0,0,0,0,0,0,0,0,0,0,0,0,0,0,0,0,0,0,0,0,0>>,
     <<0,4,0,3,0,3,0,4,0,3,4,4,3,2,2,1,2,1,3,1,3,3,3,3,3,4,3,1,3,3,5,3,3,0,4,3,0,5,4,3,3,5,4,4,3,4,4,5,0,1,2,0,1,2,0,2,2,0,1,0,0,5,2,2,1,4,0,3,0,1,0,4,4,3,5,4,3,0,2,1,0,4,3>>,
     <<0,0,0,0,0,0,0,0,0,0,0,0,0,0,0,0,0,0,0,0,0,0,0,0,0,0,0,0,0,0,0,0,0,0,0,0,0,0,0,1,0,0,0,0,0,0,0,0,0,0,0,0,0,0,0,0,0,0,0,0,0,0,0,0,0,0,0,0,0,0,0,0,0,0,0,0,0,0,0,0,0,0,0>>,
     <<0,3,0,5,0,4,0,2,1,4,4,2,4,1,4,2,4,2,4,3,3,3,4,3,3,3,3,1,4,2,3,3,3,1,4,4,1,1,1,4,3,3,2,0,2,4,3,2,0,3,3,0,3,1,1,0,0,0,3,3,0,4,2,2,3,4,0,4,0,3,0,4,4,5,3,4,4,0,3,0,0,1,4>>,
     <<1,4,0,4,0,4,0,4,0,3,5,4,4,3,4,3,5,4,3,3,4,3,5,4,4,4,4,3,4,2,4,3,3,1,5,4,3,2,4,5,4,5,5,4,4,5,4,4,0,3,2,2,3,3,0,4,3,1,3,2,1,4,3,3,4,5,0,3,0,2,0,4,5,5,4,5,4,0,4,0,0,5,4>>,
     <<0,5,0,5,0,4,0,3,0,4,4,3,4,3,3,3,4,0,4,4,4,3,4,3,4,3,3,1,4,2,4,3,4,0,5,4,1,4,5,4,4,5,3,2,4,3,4,3,2,4,1,3,3,3,2,3,2,0,4,3,3,4,3,3,3,4,0,4,0,3,0,4,5,4,4,4,3,0,4,1,0,1,3>>,
     <<0,3,1,4,0,3,0,2,0,3,4,4,3,1,4,2,3,3,4,3,4,3,4,3,4,4,3,2,3,1,5,4,4,1,4,4,3,5,4,4,3,5,5,4,3,4,4,3,1,2,3,1,2,2,0,3,2,0,3,1,0,5,3,3,3,4,3,3,3,3,4,4,4,4,5,4,2,0,3,3,2,4,3>>,
     <<0,2,0,3,0,1,0,1,0,0,3,2,0,0,2,0,1,0,2,1,3,3,3,1,2,3,1,0,1,0,4,2,1,1,3,3,0,4,3,3,1,4,3,3,0,3,3,2,0,0,0,0,1,0,0,2,0,0,0,0,0,4,1,0,2,3,2,2,2,1,3,3,3,4,4,3,2,0,3,1,0,3,3>>,
     <<0,4,0,4,0,3,0,3,0,4,4,4,3,3,3,3,3,3,4,3,4,2,4,3,4,3,3,2,4,3,4,5,4,1,4,5,3,5,4,5,3,5,4,0,3,5,5,3,1,3,3,2,2,3,0,3,4,1,3,3,2,4,3,3,3,4,0,4,0,3,0,4,5,4,4,5,3,0,4,1,0,3,4>>,
     <<0,2,0,3,0,3,0,0,0,2,2,2,1,0,1,0,0,0,3,0,3,0,3,0,1,3,1,0,3,1,3,3,3,1,3,3,3,0,1,3,1,3,4,0,0,3,1,1,0,3,2,0,0,0,0,1,3,0,1,0,0,3,3,2,0,3,0,0,0,0,0,3,4,3,4,3,3,0,3,0,0,2,3>>,
     <<2,3,0,3,0,2,0,1,0,3,3,4,3,1,3,1,1,1,3,1,4,3,4,3,3,3,0,0,3,1,5,4,3,1,4,3,2,5,5,4,4,4,4,3,3,4,4,4,0,2,1,1,3,2,0,1,2,0,0,1,0,4,1,3,3,3,0,3,0,1,0,4,4,4,5,5,3,0,2,0,0,4,4>>,
     <<0,2,0,1,0,3,1,3,0,2,3,3,3,0,3,1,0,0,3,0,3,2,3,1,3,2,1,1,0,0,4,2,1,0,2,3,1,4,3,2,0,4,4,3,1,3,1,3,0,1,0,0,1,0,0,0,1,0,0,0,0,4,1,1,1,2,0,3,0,0,0,3,4,2,4,3,2,0,1,0,0,3,3>>,
     <<0,1,0,4,0,5,0,4,0,2,4,4,2,3,3,2,3,3,5,3,3,3,4,3,4,2,3,0,4,3,3,3,4,1,4,3,2,1,5,5,3,4,5,1,3,5,4,2,0,3,3,0,1,3,0,4,2,0,1,3,1,4,3,3,3,3,0,3,0,1,0,3,4,4,4,5,5,0,3,0,1,4,5>>,
     <<0,2,0,3,0,3,0,0,0,2,3,1,3,0,4,0,1,1,3,0,3,4,3,2,3,1,0,3,3,2,3,1,3,0,2,3,0,2,1,4,1,2,2,0,0,3,3,0,0,2,0,0,0,1,0,0,0,0,2,2,0,3,2,1,3,3,0,2,0,2,0,0,3,3,1,2,4,0,3,0,2,2,3>>,
     <<2,4,0,5,0,4,0,4,0,2,4,4,4,3,4,3,3,3,1,2,4,3,4,3,4,4,5,0,3,3,3,3,2,0,4,3,1,4,3,4,1,4,4,3,3,4,4,3,1,2,3,0,4,2,0,4,1,0,3,3,0,4,3,3,3,4,0,4,0,2,0,3,5,3,4,5,2,0,3,0,0,4,5>>,
     <<0,3,0,4,0,1,0,1,0,1,3,2,2,1,3,0,3,0,2,0,2,0,3,0,2,0,0,0,1,0,1,1,0,0,3,1,0,0,0,4,0,3,1,0,2,1,3,0,0,0,0,0,0,3,0,0,0,0,0,0,0,4,2,2,3,1,0,3,0,0,0,1,4,4,4,3,0,0,4,0,0,1,4>>,
     <<1,4,1,5,0,3,0,3,0,4,5,4,4,3,5,3,3,4,4,3,4,1,3,3,3,3,2,1,4,1,5,4,3,1,4,4,3,5,4,4,3,5,4,3,3,4,4,4,0,3,3,1,2,3,0,3,1,0,3,3,0,5,4,4,4,4,4,4,3,3,5,4,4,3,3,5,4,0,3,2,0,4,4>>,
     <<0,2,0,3,0,1,0,0,0,1,3,3,3,2,4,1,3,0,3,1,3,0,2,2,1,1,0,0,2,0,4,3,1,0,4,3,0,4,4,4,1,4,3,1,1,3,3,1,0,2,0,0,1,3,0,0,0,0,2,0,0,4,3,2,4,3,5,4,3,3,3,4,3,3,4,3,3,0,2,1,0,3,3>>,
     <<0,2,0,4,0,3,0,2,0,2,5,5,3,4,4,4,4,1,4,3,3,0,4,3,4,3,1,3,3,2,4,3,0,3,4,3,0,3,4,4,2,4,4,0,4,5,3,3,2,2,1,1,1,2,0,1,5,0,3,3,2,4,3,3,3,4,0,3,0,2,0,4,4,3,5,5,0,0,3,0,2,3,3>>,
     <<0,3,0,4,0,3,0,1,0,3,4,3,3,1,3,3,3,0,3,1,3,0,4,3,3,1,1,0,3,0,3,3,0,0,4,4,0,1,5,4,3,3,5,0,3,3,4,3,0,2,0,1,1,1,0,1,3,0,1,2,1,3,3,2,3,3,0,3,0,1,0,1,3,3,4,4,1,0,1,2,2,1,3>>,
     <<0,1,0,4,0,4,0,3,0,1,3,3,3,2,3,1,1,0,3,0,3,3,4,3,2,4,2,0,1,0,4,3,2,0,4,3,0,5,3,3,2,4,4,4,3,3,3,4,0,1,3,0,0,1,0,0,1,0,0,0,0,4,2,3,3,3,0,3,0,0,0,4,4,4,5,3,2,0,3,3,0,3,5>>,
     <<0,2,0,3,0,0,0,3,0,1,3,0,2,0,0,0,1,0,3,1,1,3,3,0,0,3,0,0,3,0,2,3,1,0,3,1,0,3,3,2,0,4,2,2,0,2,0,0,0,4,0,0,0,0,0,0,0,0,0,0,0,2,1,2,0,1,0,1,0,0,0,1,3,1,2,0,0,0,1,0,0,1,4>>,
     <<0,3,0,3,0,5,0,1,0,2,4,3,1,3,3,2,1,1,5,2,1,0,5,1,2,0,0,0,3,3,2,2,3,2,4,3,0,0,3,3,1,3,3,0,2,5,3,4,0,3,3,0,1,2,0,2,2,0,3,2,0,2,2,3,3,3,0,2,0,1,0,3,4,4,2,5,4,0,3,0,0,3,5>>,
     <<0,3,0,3,0,3,0,1,0,3,3,3,3,0,3,0,2,0,2,1,1,0,2,0,1,0,0,0,2,1,0,0,1,0,3,2,0,0,3,3,1,2,3,1,0,3,3,0,0,1,0,0,0,0,0,2,0,0,0,0,0,2,3,1,2,3,0,3,0,1,0,3,2,1,0,4,3,0,1,1,0,3,3>>,
     <<0,4,0,5,0,3,0,3,0,4,5,5,4,3,5,3,4,3,5,3,3,2,5,3,4,4,4,3,4,3,4,5,5,3,4,4,3,4,4,5,4,4,4,3,4,5,5,4,2,3,4,2,3,4,0,3,3,1,4,3,2,4,3,3,5,5,0,3,0,3,0,5,5,5,5,4,4,0,4,0,1,4,4>>,
     <<0,4,0,4,0,3,0,3,0,3,5,4,4,2,3,2,5,1,3,2,5,1,4,2,3,2,3,3,4,3,3,3,3,2,5,4,1,3,3,5,3,4,4,0,4,4,3,1,1,3,1,0,2,3,0,2,3,0,3,0,0,4,3,1,3,4,0,3,0,2,0,4,4,4,3,4,5,0,4,0,0,3,4>>,
     <<0,3,0,3,0,3,1,2,0,3,4,4,3,3,3,0,2,2,4,3,3,1,3,3,3,1,1,0,3,1,4,3,2,3,4,4,2,4,4,4,3,4,4,3,2,4,4,3,1,3,3,1,3,3,0,4,1,0,2,2,1,4,3,2,3,3,5,4,3,3,5,4,4,3,3,0,4,0,3,2,2,4,4>>,
     <<0,2,0,1,0,0,0,0,0,1,2,1,3,0,0,0,0,0,2,0,1,2,1,0,0,1,0,0,0,0,3,0,0,1,0,1,1,3,1,0,0,0,1,1,0,1,1,0,0,0,0,0,2,0,0,0,0,0,0,0,0,1,1,2,2,0,3,4,0,0,0,1,1,0,0,1,0,0,0,0,0,1,1>>,
     <<0,1,0,0,0,1,0,0,0,0,4,0,4,1,4,0,3,0,4,0,3,0,4,0,3,0,3,0,4,1,5,1,4,0,0,3,0,5,0,5,2,0,1,0,0,0,2,1,4,0,1,3,0,0,3,0,0,3,1,1,4,1,0,0,0,0,0,0,0,0,0,0,0,0,1,0,0,0,0,0,0,0,0>>,
     <<1,4,0,5,0,3,0,2,0,3,5,4,4,3,4,3,5,3,4,3,3,0,4,3,3,3,3,3,3,2,4,4,3,1,3,4,4,5,4,4,3,4,4,1,3,5,4,3,3,3,1,2,2,3,3,1,3,1,3,3,3,5,3,3,4,5,0,3,0,3,0,3,4,3,4,4,3,0,3,0,2,4,3>>,
     <<0,1,0,4,0,0,0,0,0,1,4,0,4,1,4,2,4,0,3,0,1,0,1,0,0,0,0,0,2,0,3,1,1,1,0,3,0,0,0,1,2,1,0,0,1,1,1,1,0,1,0,0,0,1,0,0,3,0,0,0,0,3,2,0,2,2,0,1,0,0,0,2,3,2,3,3,0,0,0,0,2,1,0>>,
     <<0,5,1,5,0,3,0,3,0,5,4,4,5,1,5,3,3,0,4,3,4,3,5,3,4,3,3,2,4,3,4,3,3,0,3,3,1,4,4,3,4,4,4,3,4,5,5,3,2,3,1,1,3,3,1,3,1,1,3,3,2,4,5,3,3,5,0,4,0,3,0,4,4,3,5,3,3,0,3,4,0,4,3>>,
     <<0,5,0,5,0,3,0,2,0,4,4,3,5,2,4,3,3,3,4,4,4,3,5,3,5,3,3,1,4,0,4,3,3,0,3,3,0,4,4,4,4,5,4,3,3,5,5,3,2,3,1,2,3,2,0,1,0,0,3,2,2,4,4,3,1,5,0,4,0,3,0,4,3,1,3,2,1,0,3,3,0,3,3>>,
     <<0,4,0,5,0,5,0,4,0,4,5,5,5,3,4,3,3,2,5,4,4,3,5,3,5,3,4,0,4,3,4,4,3,2,4,4,3,4,5,4,4,5,5,0,3,5,5,4,1,3,3,2,3,3,1,3,1,0,4,3,1,4,4,3,4,5,0,4,0,2,0,4,3,4,4,3,3,0,4,0,0,5,5>>,
     <<0,4,0,4,0,5,0,1,1,3,3,4,4,3,4,1,3,0,5,1,3,0,3,1,3,1,1,0,3,0,3,3,4,0,4,3,0,4,4,4,3,4,4,0,3,5,4,1,0,3,0,0,2,3,0,3,1,0,3,1,0,3,2,1,3,5,0,3,0,1,0,3,2,3,3,4,4,0,2,2,0,4,4>>,
     <<2,4,0,5,0,4,0,3,0,4,5,5,4,3,5,3,5,3,5,3,5,2,5,3,4,3,3,4,3,4,5,3,2,1,5,4,3,2,3,4,5,3,4,1,2,5,4,3,0,3,3,0,3,2,0,2,3,0,4,1,0,3,4,3,3,5,0,3,0,1,0,4,5,5,5,4,3,0,4,2,0,3,5>>,
     <<0,5,0,4,0,4,0,2,0,5,4,3,4,3,4,3,3,3,4,3,4,2,5,3,5,3,4,1,4,3,4,4,4,0,3,5,0,4,4,4,4,5,3,1,3,4,5,3,3,3,3,3,3,3,0,2,2,0,3,3,2,4,3,3,3,5,3,4,1,3,3,5,3,2,0,0,0,0,4,3,1,3,3>>,
     <<0,1,0,3,0,3,0,1,0,1,3,3,3,2,3,3,3,0,3,0,0,0,3,1,3,0,0,0,2,2,2,3,0,0,3,2,0,1,2,4,1,3,3,0,0,3,3,3,0,1,0,0,2,1,0,0,3,0,3,1,0,3,0,0,1,3,0,2,0,1,0,3,3,1,3,3,0,0,1,1,0,3,3>>,
     <<0,2,0,3,0,2,1,4,0,2,2,3,1,1,3,1,1,0,2,0,3,1,2,3,1,3,0,0,1,0,4,3,2,3,3,3,1,4,2,3,3,3,3,1,0,3,1,4,0,1,1,0,1,2,0,1,1,0,1,1,0,3,1,3,2,2,0,1,0,0,0,2,3,3,3,1,0,0,0,0,0,2,3>>,
     <<0,5,0,4,0,5,0,2,0,4,5,5,3,3,4,3,3,1,5,4,4,2,4,4,4,3,4,2,4,3,5,5,4,3,3,4,3,3,5,5,4,5,5,1,3,4,5,3,1,4,3,1,3,3,0,3,3,1,4,3,1,4,5,3,3,5,0,4,0,3,0,5,3,3,1,4,3,0,4,0,1,5,3>>,
     <<0,5,0,5,0,4,0,2,0,4,4,3,4,3,3,3,3,3,5,4,4,4,4,4,4,5,3,3,5,2,4,4,4,3,4,4,3,3,4,4,5,5,3,3,4,3,4,3,3,4,3,3,3,3,1,2,2,1,4,3,3,5,4,4,3,4,0,4,0,3,0,4,4,4,4,4,1,0,4,2,0,2,4>>,
     <<0,4,0,4,0,3,0,1,0,3,5,2,3,0,3,0,2,1,4,2,3,3,4,1,4,3,3,2,4,1,3,3,3,0,3,3,0,0,3,3,3,5,3,3,3,3,3,2,0,2,0,0,2,0,0,2,0,0,1,0,0,3,1,2,2,3,0,3,0,2,0,4,4,3,3,4,1,0,3,0,0,2,4>>,
     <<0,0,0,4,0,0,0,0,0,0,1,0,1,0,2,0,0,0,0,0,1,0,2,0,1,0,0,0,0,0,3,1,3,0,3,2,0,0,0,1,0,3,2,0,0,2,0,0,0,0,0,0,0,0,0,0,0,0,0,0,0,0,0,0,0,0,0,0,0,0,0,0,3,4,0,2,0,0,0,0,0,0,2>>,
     <<0,2,1,3,0,2,0,2,0,3,3,3,3,1,3,1,3,3,3,3,3,3,4,2,2,1,2,1,4,0,4,3,1,3,3,3,2,4,3,5,4,3,3,3,3,3,3,3,0,1,3,0,2,0,0,1,0,0,1,0,0,4,2,0,2,3,0,3,3,0,3,3,4,2,3,1,4,0,1,2,0,2,3>>,
     <<0,3,0,3,0,1,0,3,0,2,3,3,3,0,3,1,2,0,3,3,2,3,3,2,3,2,3,1,3,0,4,3,2,0,3,3,1,4,3,3,2,3,4,3,1,3,3,1,1,0,1,1,0,1,0,1,0,1,0,0,0,4,1,1,0,3,0,3,1,0,2,3,3,3,3,3,1,0,0,2,0,3,3>>,
     <<0,0,0,0,0,0,0,0,0,0,3,0,2,0,3,0,0,0,0,0,0,0,3,0,0,0,0,0,0,0,3,0,3,0,3,1,0,1,0,1,0,0,1,0,0,0,0,0,0,0,0,0,0,0,0,0,0,0,0,0,0,0,0,0,0,0,0,0,3,0,2,0,2,3,0,0,0,0,0,0,0,0,3>>,
     <<0,2,0,3,1,3,0,3,0,2,3,3,3,1,3,1,3,1,3,1,3,3,3,1,3,0,2,3,1,1,4,3,3,2,3,3,1,2,2,4,1,3,3,0,1,4,2,3,0,1,3,0,3,0,0,1,3,0,2,0,0,3,3,2,1,3,0,3,0,2,0,3,4,4,4,3,1,0,3,0,0,3,3>>,
     <<0,2,0,1,0,2,0,0,0,1,3,2,2,1,3,0,1,1,3,0,3,2,3,1,2,0,2,0,1,1,3,3,3,0,3,3,1,1,2,3,2,3,3,1,2,3,2,0,0,1,0,0,0,0,0,0,3,0,1,0,0,2,1,2,1,3,0,3,0,0,0,3,4,4,4,3,2,0,2,0,0,2,4>>,
     <<0,0,0,1,0,1,0,0,0,0,1,0,0,0,1,0,0,0,0,0,0,0,1,1,1,0,0,0,0,0,0,0,0,0,2,2,0,0,0,1,0,0,0,0,0,0,0,0,0,0,0,0,0,0,0,0,0,0,0,0,0,0,0,0,0,0,0,1,0,0,0,0,1,3,1,0,0,0,0,0,0,0,3>>,
     <<0,3,0,3,0,2,0,3,0,3,3,3,2,3,2,2,2,0,3,1,3,3,3,2,3,3,0,0,3,0,3,2,2,0,2,3,1,4,3,4,3,3,2,3,1,5,4,4,0,3,1,2,1,3,0,3,1,1,2,0,2,3,1,3,1,3,0,3,0,1,0,3,3,4,4,2,1,0,2,1,0,2,4>>,
     <<0,1,0,3,0,1,0,2,0,1,4,2,5,1,4,0,2,0,2,1,3,1,4,0,2,1,0,0,2,1,4,1,1,0,3,3,0,5,1,3,2,3,3,1,0,3,2,3,0,1,0,0,0,0,0,0,1,0,0,0,0,4,0,1,0,3,0,2,0,1,0,3,3,3,4,3,3,0,0,0,0,2,3>>,
     <<0,0,0,1,0,0,0,0,0,0,2,0,1,0,0,0,0,0,1,0,0,0,0,0,0,0,0,0,0,0,3,0,0,0,0,0,0,1,0,0,0,0,0,0,0,0,0,0,0,0,0,0,0,0,0,0,0,0,0,0,0,0,0,0,0,0,0,0,0,0,0,0,2,1,0,0,1,0,0,0,0,0,3>>,
     <<0,1,0,3,0,4,0,3,0,2,4,3,1,0,3,2,2,1,3,1,2,2,3,1,1,1,2,1,3,0,1,2,0,1,3,2,1,3,0,5,5,1,0,0,1,3,2,1,0,3,0,0,1,0,0,0,0,0,3,4,0,1,1,1,3,2,0,2,0,1,0,2,3,3,1,2,3,0,1,0,1,0,4>>,
     <<0,0,0,1,0,3,0,3,0,2,2,1,0,0,4,0,3,0,3,1,3,0,3,0,3,0,1,0,3,0,3,1,3,0,3,3,0,0,1,2,1,1,1,0,1,2,0,0,0,1,0,0,1,0,0,0,0,0,0,0,0,2,2,1,2,0,0,2,0,0,0,0,2,3,3,3,3,0,0,0,0,1,4>>,
     <<0,0,0,3,0,3,0,0,0,0,3,1,1,0,3,0,1,0,2,0,1,0,0,0,0,0,0,0,1,0,3,0,2,0,2,3,0,0,2,2,3,1,2,0,0,1,0,0,0,0,0,0,0,0,0,1,0,0,0,0,0,0,0,0,0,0,0,0,0,0,0,0,0,3,0,0,2,0,0,0,0,2,3>>,
     <<2,4,0,5,0,5,0,4,0,3,4,3,3,3,4,3,3,3,4,3,4,4,5,4,5,5,5,2,3,0,5,5,4,1,5,4,3,1,5,4,3,4,4,3,3,4,3,3,0,3,2,0,2,3,0,3,0,0,3,3,0,5,3,2,3,3,0,3,0,3,0,3,4,5,4,5,3,0,4,3,0,3,4>>,
     <<0,3,0,3,0,3,0,3,0,3,3,4,3,2,3,2,3,0,4,3,3,3,3,3,3,3,3,0,3,2,4,3,3,1,3,4,3,4,4,4,3,4,4,3,2,4,4,1,0,2,0,0,1,1,0,2,0,0,3,1,0,5,3,2,1,3,0,3,0,1,2,4,3,2,4,3,3,0,3,2,0,4,4>>,
     <<0,3,0,3,0,1,0,0,0,1,4,3,3,2,3,1,3,1,4,2,3,2,4,2,3,4,3,0,2,2,3,3,3,0,3,3,3,0,3,4,1,3,3,0,3,4,3,3,0,1,1,0,1,0,0,0,4,0,3,0,0,3,1,2,1,3,0,4,0,1,0,4,3,3,4,3,3,0,2,0,0,3,3>>,
     <<0,3,0,4,0,1,0,3,0,3,4,3,3,0,3,3,3,1,3,1,3,3,4,3,3,3,0,0,3,1,5,3,3,1,3,3,2,5,4,3,3,4,5,3,2,5,3,4,0,1,0,0,0,0,0,2,0,0,1,1,0,4,2,2,1,3,0,3,0,2,0,4,4,3,5,3,2,0,1,1,0,3,4>>,
     <<0,5,0,4,0,5,0,2,0,4,4,3,3,2,3,3,3,1,4,3,4,1,5,3,4,3,4,0,4,2,4,3,4,1,5,4,0,4,4,4,4,5,4,1,3,5,4,2,1,4,1,1,3,2,0,3,1,0,3,2,1,4,3,3,3,4,0,4,0,3,0,4,4,4,3,3,3,0,4,2,0,3,4>>,
     <<1,4,0,4,0,3,0,1,0,3,3,3,1,1,3,3,2,2,3,3,1,0,3,2,2,1,2,0,3,1,2,1,2,0,3,2,0,2,2,3,3,4,3,0,3,3,1,2,0,1,1,3,1,2,0,0,3,0,1,1,0,3,2,2,3,3,0,3,0,0,0,2,3,3,4,3,3,0,1,0,0,1,4>>,
     <<0,4,0,4,0,4,0,0,0,3,4,4,3,1,4,2,3,2,3,3,3,1,4,3,4,0,3,0,4,2,3,3,2,2,5,4,2,1,3,4,3,4,3,1,3,3,4,2,0,2,1,0,3,3,0,0,2,0,3,1,0,4,4,3,4,3,0,4,0,1,0,2,4,4,4,4,4,0,3,2,0,3,3>>,
     <<0,0,0,1,0,4,0,0,0,0,0,0,1,1,1,0,0,0,0,0,0,0,0,0,1,0,0,0,0,0,0,0,1,0,3,2,0,0,1,0,0,0,1,0,0,0,0,0,0,1,0,0,0,0,0,0,0,0,0,0,0,0,0,0,0,0,0,0,0,0,0,0,0,0,0,0,1,0,0,0,0,0,2>>,
     <<0,2,0,3,0,4,0,4,0,1,3,3,3,0,4,0,2,1,2,1,1,1,2,0,3,1,1,0,1,0,3,1,0,0,3,3,2,0,1,1,0,0,0,0,0,1,0,2,0,2,2,0,3,1,0,0,1,0,1,1,0,1,2,0,3,0,0,0,0,1,0,0,3,3,4,3,1,0,1,0,3,0,2>>,
     <<0,0,0,3,0,5,0,0,0,0,1,0,2,0,3,1,0,1,3,0,0,0,2,0,0,0,1,0,0,0,1,1,0,0,4,0,0,0,2,3,0,1,4,1,0,2,0,0,0,0,0,0,0,0,0,0,0,0,0,3,0,0,0,0,0,1,0,0,0,0,0,0,0,2,0,0,3,0,0,0,0,0,3>>,
     <<0,2,0,5,0,5,0,1,0,2,4,3,3,2,5,1,3,2,3,3,3,0,4,1,2,0,3,0,4,0,2,2,1,1,5,3,0,0,1,4,2,3,2,0,3,3,3,2,0,2,4,1,1,2,0,1,1,0,3,1,0,1,3,1,2,3,0,2,0,0,0,1,3,5,4,4,4,0,3,0,0,1,3>>,
     <<0,4,0,5,0,4,0,4,0,4,5,4,3,3,4,3,3,3,4,3,4,4,5,3,4,5,4,2,4,2,3,4,3,1,4,4,1,3,5,4,4,5,5,4,4,5,5,5,2,3,3,1,4,3,1,3,3,0,3,3,1,4,3,4,4,4,0,3,0,4,0,3,3,4,4,5,0,0,4,3,0,4,5>>,
     <<0,4,0,4,0,3,0,3,0,3,4,4,4,3,3,2,4,3,4,3,4,3,5,3,4,3,2,1,4,2,4,4,3,1,3,4,2,4,5,5,3,4,5,4,1,5,4,3,0,3,2,2,3,2,1,3,1,0,3,3,3,5,3,3,3,5,4,4,2,3,3,4,3,3,3,2,1,0,3,2,1,4,3>>,
     <<0,4,0,5,0,4,0,3,0,3,5,5,3,2,4,3,4,0,5,4,4,1,4,4,4,3,3,3,4,3,5,5,2,3,3,4,1,2,5,5,3,5,5,2,3,5,5,4,0,3,2,0,3,3,1,1,5,1,4,1,0,4,3,2,3,5,0,4,0,3,0,5,4,3,4,3,0,0,4,1,0,4,4>>,
     <<1,3,0,4,0,2,0,2,0,2,5,5,3,3,3,3,3,0,4,2,3,4,4,4,3,4,0,0,3,4,5,4,3,3,3,3,2,5,5,4,5,5,5,4,3,5,5,5,1,3,1,0,1,0,0,3,2,0,4,2,0,5,2,3,2,4,1,3,0,3,0,4,5,4,5,4,3,0,4,2,0,5,4>>,
     <<0,3,0,4,0,5,0,3,0,3,4,4,3,2,3,2,3,3,3,3,3,2,4,3,3,2,2,0,3,3,3,3,3,1,3,3,3,0,4,4,3,4,4,1,1,4,4,2,0,3,1,0,1,1,0,4,1,0,2,3,1,3,3,1,3,4,0,3,0,1,0,3,1,3,0,0,1,0,2,0,0,4,4>>,
     <<0,0,0,0,0,0,0,0,0,0,0,0,0,0,0,0,0,0,0,0,0,0,0,0,0,0,0,0,0,0,0,0,0,0,0,0,0,0,0,0,0,0,0,0,0,0,0,0,0,0,0,0,0,0,0,0,0,0,0,0,0,0,0,0,0,0,0,0,0,0,0,0,0,0,0,0,0,0,0,0,0,0,0>>,
     <<0,3,0,3,0,2,0,3,0,1,5,4,3,3,3,1,4,2,1,2,3,4,4,2,4,4,5,0,3,1,4,3,4,0,4,3,3,3,2,3,2,5,3,4,3,2,2,3,0,0,3,0,2,1,0,1,2,0,0,0,0,2,1,1,3,1,0,2,0,4,0,3,4,4,4,5,2,0,2,0,0,1,3>>,
     <<0,0,0,0,0,0,0,0,0,0,0,0,0,0,1,0,0,0,0,0,1,1,1,0,0,1,1,0,0,0,4,2,1,1,0,1,0,3,2,0,0,3,1,1,1,2,2,0,0,0,0,0,0,0,0,0,0,0,0,0,0,3,0,1,0,0,0,2,0,0,0,1,4,0,4,2,1,0,0,0,0,0,1>>,
     <<0,0,0,0,0,0,0,0,0,1,0,1,0,0,0,0,1,0,0,0,0,0,0,1,0,1,0,0,0,0,3,1,0,0,0,2,0,2,1,0,0,1,2,1,0,1,1,0,0,3,0,0,0,0,0,0,0,0,0,0,0,1,3,1,0,0,0,0,0,1,0,0,2,1,0,0,0,0,0,0,0,0,2>>,
     <<0,4,0,4,0,4,0,3,0,4,4,3,4,2,4,3,2,0,4,4,4,3,5,3,5,3,3,2,4,2,4,3,4,3,1,4,0,2,3,4,4,4,3,3,3,4,4,4,3,4,1,3,4,3,2,1,2,1,3,3,3,4,4,3,3,5,0,4,0,3,0,4,3,3,3,2,1,0,3,0,0,3,3>>,
     <<0,4,0,3,0,3,0,3,0,3,5,5,3,3,3,3,4,3,4,3,3,3,4,4,4,3,3,3,3,4,3,5,3,3,1,3,2,4,5,5,5,5,4,3,4,5,5,3,2,2,3,3,3,3,2,3,3,1,2,3,2,4,3,3,3,4,0,4,0,2,0,4,3,2,2,1,2,0,3,0,0,4,1>> >>

\* The lookup with row and column exchanged.
Category_Transposed(last, order) == jp2CharContext[order + 1][last + 1]

\* jp2CharContext[mLastCharOrder][order]
Category(last, order) == jp2CharContext[last + 1][order + 1]

---------------------------------------------------------------------------
(* The order decoders.  str is aBuf+i; *(str+1) is read only when *str is  *)
(* the hiragana lead byte (&& short-circuits), and when str+1 lies past    *)
(* the end of the buffer the value read is indeterminate: oob.             *)

\* SJISGetOrder as it would be if the trail range ended one byte later.
SJISGetOrder_WideTrail(b0, b1) ==
  [ charLen  |-> IF (b0 >= 129 /\ b0 <= 159) \/ (b0 >= 224 /\ b0 <= 252)
                 THEN 2 ELSE 1,
    order    |-> IF b0 = 130 /\ b1 >= 159 /\ b1 <= 242 THEN b1 - 159 ELSE -1,
    readNext |-> (b0 = 130) ]

\* EUCJPCharLen as it would be if 0x8f introduced a two-byte character.
EUCJPCharLen_ShortSS3(b0) ==
  IF b0 = 142 \/ b0 = 143 \/ (b0 >= 161 /\ b0 <= 254) THEN 2 ELSE 1

\* EUCJPGetOrder as it would be if the trail range ended one byte later.
EUCJPGetOrder_WideTrail(b0, b1) ==
  [ charLen  |-> IF b0 = 142 \/ (b0 >= 161 /\ b0 <= 254) THEN 2
                 ELSE IF b0 = 143 THEN 3 ELSE 1,
    order    |-> IF b0 = 164 /\ b1 >= 161 /\ b1 <= 244 THEN b1 - 161 ELSE -1,
    readNext |-> (b0 = 164) ]

\* EUCJPCharLen as it would be if 0x8f introduced a four-byte character.
EUCJPCharLen_LongSS3(b0) ==
  IF b0 = 142 \/ (b0 >= 161 /\ b0 <= 254) THEN 2
  ELSE IF b0 = 143 THEN 4
  ELSE 1

SJISCharLen(b0) ==
  IF (b0 >= 129 /\ b0 <= 159) \/ (b0 >= 224 /\ b0 <= 252) THEN 2 ELSE 1

EUCJPCharLen(b0) ==
  IF b0 = 142 \/ (b0 >= 161 /\ b0 <= 254) THEN 2
  ELSE IF b0 = 143 THEN 3
  ELSE 1

CharLen(e, b0) == IF e = "SJIS" THEN SJISCharLen(b0) ELSE EUCJPCharLen(b0)

SJISGetOrder(b0, b1) ==
  [ charLen  |-> SJISCharLen(b0),
    order    |-> IF b0 = 130 /\ b1 >= 159 /\ b1 <= 241 THEN b1 - 159 ELSE -1,
    readNext |-> (b0 = 130) ]

EUCJPGetOrder(b0, b1) ==
  [ charLen  |-> EUCJPCharLen(b0),
    order    |-> IF b0 = 164 /\ b1 >= 161 /\ b1 <= 243 THEN b1 - 161 ELSE -1,
    readNext |-> (b0 = 164) ]

\* GetOrder(aBuf+i, &charLen), dispatched on the object's class.
GetOrder(e, aBuf, aLen, oob, i) ==
  LET b0 == aBuf[i + 1]
      b1 == IF i + 1 < aLen THEN aBuf[i + 2] ELSE oob
  IN  IF e = "SJIS" THEN SJISGetOrder(b0, b1) ELSE EUCJPGetOrder(b0, b1)

---------------------------------------------------------------------------
(* The object's fields as a record, with what one HandleData call did:     *)
(* decoded = GetOrder invocations, maxRead = highest offset read (-1 if    *)
(* none), split = the scan ended in the i > aLen branch.                   *)

Zeroes == [c \in Categories |-> 0]

Fields ==
  [ mTotalRel          |-> mTotalRel,
    mRelSample         |-> mRelSample,
    mNeedToSkipCharNum |-> mNeedToSkipCharNum,
    mLastCharOrder     |-> mLastCharOrder,
    mDone              |-> mDone,
    mDataThreshold     |-> mDataThreshold,
    decoded            |-> 0,
    maxRead            |-> -1,
    split              |-> FALSE ]

\* Reset() as it would be if it left mNeedToSkipCharNum alone.
ResetOp_KeepsSkip(s) ==
  [ s EXCEPT !.mTotalRel = 0,
             !.mRelSample = Zeroes,
             !.mLastCharOrder = -1,
             !.mDone = FALSE,
             !.mDataThreshold = 0 ]

\* The fields after Reset().
ResetOp(s) ==
  [ s EXCEPT !.mTotalRel = 0,
             !.mRelSample = Zeroes,
             !.mNeedToSkipCharNum = 0,
             !.mLastCharOrder = -1,
             !.mDone = FALSE,
             !.mDataThreshold = 0 ]

\* The state the constructor leaves (JpCntx.h: the constructor calls Reset()).
Fresh ==
  [ mTotalRel          |-> 0,
    mRelSample         |-> Zeroes,
    mNeedToSkipCharNum |-> 0,
    mLastCharOrder     |-> -1,
    mDone              |-> FALSE,
    mDataThreshold     |-> 0,
    decoded            |-> 0,
    maxRead            |-> -1,
    split              |-> FALSE ]

\* The for loop with the bound i <= aLen: one more iteration, on the byte
\* past the end of the buffer.
RECURSIVE HandleDataLoop_Inclusive(_, _, _, _, _, _)
HandleDataLoop_Inclusive(e, aBuf, aLen, oob, i, s) ==
  IF ~(i <= aLen) THEN s
  ELSE
    LET r  == GetOrder(e, aBuf \o << oob >>, aLen, oob, i)
        i2 == U32(i + r.charLen)
        t  == [ s EXCEPT !.decoded = @ + 1,
                         !.maxRead = Max(@, IF r.readNext THEN i + 1 ELSE i) ]
    IN  IF i2 > aLen
        THEN HandleDataLoop_Inclusive(e, aBuf, aLen, oob, i2,
               [ t EXCEPT !.mNeedToSkipCharNum = U32(i2 - aLen),
                          !.mLastCharOrder = -1,
                          !.split = TRUE ])
        ELSE IF r.order # -1 /\ t.mLastCharOrder # -1
        THEN IF U32(t.mTotalRel + 1) > MAX_REL_THRESHOLD
             THEN [ t EXCEPT !.mTotalRel = U32(@ + 1), !.mDone = TRUE ]
             ELSE HandleDataLoop_Inclusive(e, aBuf, aLen, oob, i2,
                    [ t EXCEPT !.mTotalRel = U32(@ + 1),
                               !.mRelSample[Category(t.mLastCharOrder, r.order)] = U32(@ + 1),
                               !.mLastCharOrder = r.order ])
        ELSE HandleDataLoop_Inclusive(e, aBuf, aLen, oob, i2,
               [ t EXCEPT !.mLastCharOrder = r.order ])

\* The for loop with mTotalRel >= MAX_REL_THRESHOLD for the test that ends it.
RECURSIVE HandleDataLoop_DoneAtBound(_, _, _, _, _, _)
HandleDataLoop_DoneAtBound(e, aBuf, aLen, oob, i, s) ==
  IF ~(i < aLen) THEN s
  ELSE
    LET r  == GetOrder(e, aBuf, aLen, oob, i)
        i2 == U32(i + r.charLen)
        t  == [ s EXCEPT !.decoded = @ + 1,
                         !.maxRead = Max(@, IF r.readNext THEN i + 1 ELSE i) ]
    IN  IF i2 > aLen
        THEN HandleDataLoop_DoneAtBound(e, aBuf, aLen, oob, i2,
               [ t EXCEPT !.mNeedToSkipCharNum = U32(i2 - aLen),
                          !.mLastCharOrder = -1,
                          !.split = TRUE ])
        ELSE IF r.order # -1 /\ t.mLastCharOrder # -1
        THEN IF U32(t.mTotalRel + 1) >= MAX_REL_THRESHOLD
             THEN [ t EXCEPT !.mTotalRel = U32(@ + 1), !.mDone = TRUE ]
             ELSE HandleDataLoop_DoneAtBound(e, aBuf, aLen, oob, i2,
                    [ t EXCEPT !.mTotalRel = U32(@ + 1),
                               !.mRelSample[Category(t.mLastCharOrder, r.order)] = U32(@ + 1),
                               !.mLastCharOrder = r.order ])
        ELSE HandleDataLoop_DoneAtBound(e, aBuf, aLen, oob, i2,
               [ t EXCEPT !.mLastCharOrder = r.order ])

\* The for loop of HandleData from offset i on.
RECURSIVE HandleDataLoop(_, _, _, _, _, _)
HandleDataLoop(e, aBuf, aLen, oob, i, s) ==
  IF ~(i < aLen) THEN s
  ELSE
    LET r  == GetOrder(e, aBuf, aLen, oob, i)
        i2 == U32(i + r.charLen)
        t  == [ s EXCEPT !.decoded = @ + 1,
                         !.maxRead = Max(@, IF r.readNext THEN i + 1 ELSE i) ]
    IN  IF i2 > aLen
        THEN HandleDataLoop(e, aBuf, aLen, oob, i2,
               [ t EXCEPT !.mNeedToSkipCharNum = U32(i2 - aLen),
                          !.mLastCharOrder = -1,
                          !.split = TRUE ])
        ELSE IF r.order # -1 /\ t.mLastCharOrder # -1
        THEN IF U32(t.mTotalRel + 1) > MAX_REL_THRESHOLD
             THEN [ t EXCEPT !.mTotalRel = U32(@ + 1), !.mDone = TRUE ]
             ELSE HandleDataLoop(e, aBuf, aLen, oob, i2,
                    [ t EXCEPT !.mTotalRel = U32(@ + 1),
                               !.mRelSample[Category(t.mLastCharOrder, r.order)] = U32(@ + 1),
                               !.mLastCharOrder = r.order ])
        ELSE HandleDataLoop(e, aBuf, aLen, oob, i2,
               [ t EXCEPT !.mLastCharOrder = r.order ])

\* HandleData as it would be if it cleared the pending skip on entry.
HandleDataOp_ClearsSkip(e, aBuf, aLen, oob, s) ==
  IF s.mDone THEN s
  ELSE HandleDataLoop(e, aBuf, aLen, oob, s.mNeedToSkipCharNum,
                      [ s EXCEPT !.mNeedToSkipCharNum = 0 ])

\* HandleData as it would be if it started the histogram anew in each call.
HandleDataOp_CountsAnew(e, aBuf, aLen, oob, s) ==
  IF s.mDone THEN s
  ELSE HandleDataLoop(e, aBuf, aLen, oob, s.mNeedToSkipCharNum,
                      [ s EXCEPT !.mRelSample = Zeroes ])

\* HandleData as it would be if it forgot the previous buffer's last character.
HandleDataOp_ForgetsLast(e, aBuf, aLen, oob, s) ==
  IF s.mDone THEN s
  ELSE HandleDataLoop(e, aBuf, aLen, oob, s.mNeedToSkipCharNum,
                      [ s EXCEPT !.mLastCharOrder = -1 ])

\* HandleData as it would be without the test of mDone.
HandleDataOp_NoDoneTest(e, aBuf, aLen, oob, s) ==
  HandleDataLoop(e, aBuf, aLen, oob, s.mNeedToSkipCharNum, s)

\* HandleData(aBuf, aLen) on fields s.
HandleDataOp(e, aBuf, aLen, oob, s) ==
  IF s.mDone THEN s
  ELSE HandleDataLoop(e, aBuf, aLen, oob, s.mNeedToSkipCharNum, s)

\* GetConfidence() as it would be with >= for >.
GetConfidenceOp_AtThreshold(s) ==
  IF s.mTotalRel >= s.mDataThreshold
  THEN [ num |-> U32(s.mTotalRel - s.mRelSample[0]), den |-> s.mTotalRel ]
  ELSE [ num |-> -1, den |-> 1 ]

\* GetConfidence(): the float returned, as the fraction num/den.  DONT_KNOW
\* is (float)-1, i.e. -1/1; den = 0 stands for a division by zero.
GetConfidenceOp(s) ==
  IF s.mTotalRel > s.mDataThreshold
  THEN [ num |-> U32(s.mTotalRel - s.mRelSample[0]), den |-> s.mTotalRel ]
  ELSE [ num |-> -1, den |-> 1 ]

DONT_KNOW == [ num |-> -1, den |-> 1 ]

---------------------------------------------------------------------------
(* The stream's own character boundaries: the characters the order decoder *)
(* cuts the concatenated buffers into, from the first byte on.             *)

\* Walks a buffer from offset i; what is left over is the part of the last
\* character that the next buffer holds.
RECURSIVE TrueWalk(_, _, _, _, _)
TrueWalk(e, aBuf, aLen, i, len) ==
  IF i >= aLen THEN [ pend |-> i - aLen, len |-> IF i > aLen THEN len ELSE 0 ]
  ELSE LET n == CharLen(e, aBuf[i + 1])
       IN  TrueWalk(e, aBuf, aLen, i + n, n)

---------------------------------------------------------------------------
(* The state machine.                                                      *)

NoCall ==
  [ op |-> "none", aLen |-> 0, active |-> FALSE, used |-> FALSE,
    decoded |-> 0, maxRead |-> -1, split |-> FALSE, num |-> 0, den |-> 0 ]

InitFields ==
  /\ enc \in Encodings
  /\ mTotalRel = Fresh.mTotalRel
  /\ mRelSample = Fresh.mRelSample
  /\ mNeedToSkipCharNum = Fresh.mNeedToSkipCharNum
  /\ mLastCharOrder = Fresh.mLastCharOrder
  /\ mDone = Fresh.mDone
  /\ mDataThreshold = Fresh.mDataThreshold
  /\ call = NoCall
  /\ truePend = 0
  /\ trueLen = 0
  /\ stream = << >>
  /\ splitAt = {}
  /\ nCalls = 0

\* A new object; the bytes it is fed are not recorded.
Init == InitFields /\ tracked = FALSE

\* A new object; the bytes it is fed are recorded, and it is fed at most
\* MaxStream bytes between two Reset calls.
InitStream == InitFields /\ tracked = TRUE

\* The longest buffer the object is fed in the current state.
Room == IF tracked THEN MaxStream - Len(stream) ELSE MaxLen

HandleData(aBuf, oob) ==
  \E t \in { HandleDataOp(enc, aBuf, Len(aBuf), oob, Fields) },
     w \in { TrueWalk(enc, aBuf, Len(aBuf), truePend, trueLen) } :
      /\ mTotalRel' = t.mTotalRel
      /\ mRelSample' = t.mRelSample
      /\ mNeedToSkipCharNum' = t.mNeedToSkipCharNum
      /\ mLastCharOrder' = t.mLastCharOrder
      /\ mDone' = t.mDone
      /\ mDataThreshold' = t.mDataThreshold
      /\ call' = [ NoCall EXCEPT !.op = "HandleData",
                                 !.aLen = Len(aBuf),
                                 !.active = ~mDone,
                                 !.decoded = t.decoded,
                                 !.maxRead = t.maxRead,
                                 !.split = t.split ]
      /\ truePend' = w.pend
      /\ trueLen' = w.len
      /\ stream' = IF tracked THEN stream \o aBuf ELSE stream
      /\ splitAt' = IF tracked /\ truePend > 0
                    THEN splitAt \cup { Len(stream) - (trueLen - truePend) }
                    ELSE splitAt
      /\ nCalls' = Min(nCalls + 1, 2)
      /\ UNCHANGED << enc, tracked >>

Reset ==
  \E t \in { ResetOp(Fields) } :
      /\ mTotalRel' = t.mTotalRel
      /\ mRelSample' = t.mRelSample
      /\ mNeedToSkipCharNum' = t.mNeedToSkipCharNum
      /\ mLastCharOrder' = t.mLastCharOrder
      /\ mDone' = t.mDone
      /\ mDataThreshold' = t.mDataThreshold
      /\ call' = [ NoCall EXCEPT !.op = "Reset",
                                 !.active = ~mDone,
                                 !.used = (Fields # Fresh) ]
      /\ truePend' = 0
      /\ trueLen' = 0
      /\ stream' = << >>
      /\ splitAt' = {}
      /\ nCalls' = 0
      /\ UNCHANGED << enc, tracked >>

GetConfidence ==
  \E c \in { GetConfidenceOp(Fields) } :
      /\ call' = [ NoCall EXCEPT !.op = "GetConfidence", !.active = ~mDone,
                                 !.num = c.num, !.den = c.den ]
      /\ UNCHANGED << enc, mTotalRel, mRelSample, mNeedToSkipCharNum,
                      mLastCharOrder, mDone, mDataThreshold, truePend, trueLen,
                      tracked, stream, splitAt, nCalls >>

Next ==
  \/ \E aBuf \in Chunks(enc, Room) : \E oob \in PastEnd(enc, aBuf) : HandleData(aBuf, oob)
  \/ Reset
  \/ GetConfidence

Spec == Init /\ [][Next]_vars

SpecStream == InitStream /\ [][Next]_vars

---------------------------------------------------------------------------
(* Configuration of mDataThreshold.  Nothing under src/ assigns the field  *)
(* but Reset; the data model lets a caller configure it, with the value    *)
(* MINIMUM_DATA_THRESHOLD the source defines.                              *)

MINIMUM_DATA_THRESHOLD == 4

SetDataThreshold(t) ==
  /\ mDataThreshold' = t
  /\ call' = [ NoCall EXCEPT !.op = "SetDataThreshold", !.active = ~mDone ]
  /\ UNCHANGED << enc, mTotalRel, mRelSample, mNeedToSkipCharNum,
                  mLastCharOrder, mDone, truePend, trueLen, tracked, stream,
                  splitAt, nCalls >>

NextConfig ==
  \/ Next
  \/ \E t \in {0, MINIMUM_DATA_THRESHOLD} : SetDataThreshold(t)

\* An object whose caller may configure the threshold.
SpecConfig == Init /\ [][NextConfig]_vars

---------------------------------------------------------------------------
(* GetOrder called by itself on a two-byte string, for every pair of byte  *)
(* values: call holds the arguments, then what the call returned.          *)

InitDecode ==
  /\ enc \in Encodings
  /\ mTotalRel = Fresh.mTotalRel
  /\ mRelSample = Fresh.mRelSample
  /\ mNeedToSkipCharNum = Fresh.mNeedToSkipCharNum
  /\ mLastCharOrder = Fresh.mLastCharOrder
  /\ mDone = Fresh.mDone
  /\ mDataThreshold = Fresh.mDataThreshold
  /\ call \in [ op : {"GetOrder"}, b0 : 0..255, b1 : 0..255,
                returned : {FALSE}, charLen : {0}, order : {-1} ]
  /\ truePend = 0
  /\ trueLen = 0
  /\ tracked = FALSE
  /\ stream = << >>
  /\ splitAt = {}
  /\ nCalls = 0

GetOrderCall ==
  /\ call.op = "GetOrder"
  /\ ~call.returned
  /\ \E r \in { GetOrder(enc, << call.b0, call.b1 >>, 2, 0, 0) } :
        call' = [ call EXCEPT !.returned = TRUE,
                              !.charLen = r.charLen,
                              !.order = r.order ]
  /\ UNCHANGED << enc, mTotalRel, mRelSample, mNeedToSkipCharNum,
                  mLastCharOrder, mDone, mDataThreshold, truePend, trueLen,
                  tracked, stream, splitAt, nCalls >>

SpecDecode == InitDecode /\ [][GetOrderCall]_vars

---------------------------------------------------------------------------
(* Reference notions the properties below are stated with.                 *)

\* The complete characters of byte sequence s from offset i on, as the order
\* decoder cuts them: start offset, byte length, hiragana order.
RECURSIVE Segment(_, _, _)
Segment(e, s, i) ==
  IF i >= Len(s) THEN << >>
  ELSE LET n == CharLen(e, s[i + 1])
       IN  IF i + n > Len(s) THEN << >>
           ELSE << [ start |-> i, len |-> n,
                     order |-> GetOrder(e, s, Len(s), 0, i).order ] >>
                \o Segment(e, s, i + n)

\* Their orders, the characters starting at an offset in D counting as
\* non-hiragana.
OrdersDropping(e, s, D) ==
  LET seg == Segment(e, s, 0)
  IN  [ k \in 1..Len(seg) |-> IF seg[k].start \in D THEN -1 ELSE seg[k].order ]

\* Positions of a hiragana character immediately preceded by a hiragana one.
Pairs(o) == { k \in 2..Len(o) : o[k] # -1 /\ o[k - 1] # -1 }

\* The pairs that reach the histogram: the first MAX_REL_THRESHOLD of them.
Sampled(o) ==
  { k \in Pairs(o) : Cardinality({ j \in Pairs(o) : j <= k }) <= MAX_REL_THRESHOLD }

RefTotal(o) == Min(Cardinality(Pairs(o)), MAX_REL_THRESHOLD + 1)

RefSample(o) ==
  [ c \in Categories |->
      Cardinality({ k \in Sampled(o) : jp2CharContext[o[k - 1] + 1][o[k] + 1] = c }) ]

---------------------------------------------------------------------------
(* Properties.                                                             *)

\* C1: cutting a byte stream into buffers at character boundaries changes
\* nothing: as long as no buffer boundary has fallen inside a character, the
\* object's mTotalRel, mRelSample, mLastCharOrder, mDone and confidence are
\* those of a new object handed the whole stream as one buffer.
C1_ChunkingAtBoundaries ==
  (tracked /\ splitAt = {}) =>
    \A oob \in PastEnd(enc, stream) :
      LET w == HandleDataOp(enc, stream, Len(stream), oob, Fresh)
      IN  /\ mTotalRel = w.mTotalRel
          /\ mRelSample = w.mRelSample
          /\ mLastCharOrder = w.mLastCharOrder
          /\ mDone = w.mDone
          /\ GetConfidenceOp(Fields) = GetConfidenceOp(w)

\* Several buffers, none cut inside a character, the last of which finishes
\* the analysis.
C1_Witness ==
  /\ tracked /\ splitAt = {} /\ truePend = 0 /\ nCalls = 2
  /\ call.op = "HandleData" /\ call.active /\ mDone
  /\ call.aLen > 0 /\ Len(stream) > call.aLen

\* C2: a buffer boundary inside a character costs that character and nothing
\* else: the next buffer is scanned from the stream's next character boundary,
\* and mTotalRel, mRelSample and the confidence are those of the stream's
\* characters with the split ones counted as non-hiragana, wherever inside
\* the character the boundary fell.
C2_SplitDropsOnlyThatCharacter ==
  tracked =>
    LET o == OrdersDropping(enc, stream, splitAt)
    IN  /\ (~mDone => mNeedToSkipCharNum = truePend)
        /\ mTotalRel = RefTotal(o)
        /\ mRelSample = RefSample(o)

\* The five fields HandleData and Reset write.
Analysis ==
  << mTotalRel, mRelSample, mNeedToSkipCharNum, mLastCharOrder, mDone >>

\* C3: Done is terminal.  A HandleData call on a finished object changes no
\* field, reads no byte, and leaves the confidence as it was; mDone goes
\* from TRUE to FALSE only in Reset.
C3_DoneIsTerminal ==
  [][ /\ (mDone /\ call'.op = "HandleData") =>
           /\ Analysis' = Analysis
           /\ call'.decoded = 0
           /\ call'.maxRead = -1
           /\ GetConfidenceOp(Fields)' = GetConfidenceOp(Fields)
           /\ mDone'
      /\ (mDone /\ ~mDone') => call'.op = "Reset" ]_vars

\* A HandleData call with a non-empty buffer on a finished object.
C3_Witness ==
  mDone /\ call.op = "HandleData" /\ ~call.active /\ call.aLen > 0

\* C4: in every reachable state mTotalRel is the sum of the six mRelSample
\* entries.
C4_TotalIsHistogramSum ==
  mTotalRel = mRelSample[0] + mRelSample[1] + mRelSample[2]
              + mRelSample[3] + mRelSample[4] + mRelSample[5]

\* C5: Reset gives back the constructed state: right after construction or
\* Reset the fields are those of a new object, and after one more HandleData
\* call they are what that call makes of a new object.
C5_ResetIsFresh ==
  /\ (call.op = "Reset" \/ nCalls = 0) =>
        /\ mTotalRel = 0
        /\ mRelSample = [ c \in Categories |-> 0 ]
        /\ mNeedToSkipCharNum = 0
        /\ mLastCharOrder = -1
        /\ mDone = FALSE
  /\ (tracked /\ nCalls = 1) =>
        \A oob \in PastEnd(enc, stream) :
          LET w == HandleDataOp(enc, stream, Len(stream), oob, Fresh)
          IN  /\ Analysis = << w.mTotalRel, w.mRelSample, w.mNeedToSkipCharNum,
                               w.mLastCharOrder, w.mDone >>
              /\ GetConfidenceOp(Fields) = GetConfidenceOp(w)

\* Reset has just been called on a finished object.
C5_Witness ==
  call.op = "Reset" /\ call.used /\ ~call.active

\* C6: GetConfidence never divides by zero; it returns DONT_KNOW exactly
\* when mTotalRel <= mDataThreshold, and otherwise
\* (mTotalRel - mRelSample[0]) / mTotalRel with
\* 0 <= mTotalRel - mRelSample[0] <= mTotalRel; the call changes no field.
C6_Confidence ==
  /\ [] LET r == GetConfidenceOp(Fields)
        IN  /\ r.den # 0
            /\ (mTotalRel <= mDataThreshold) <=> (r = DONT_KNOW)
            /\ (mTotalRel > mDataThreshold) =>
                  /\ r.den = mTotalRel
                  /\ r.num = mTotalRel - mRelSample[0]
                  /\ 0 <= r.num
                  /\ r.num <= r.den
  /\ [][ call'.op = "GetConfidence" =>
           /\ Analysis' = Analysis
           /\ mDataThreshold' = mDataThreshold
           /\ [ num |-> call'.num, den |-> call'.den ] = GetConfidenceOp(Fields) ]_vars

\* GetConfidence has returned a ratio strictly between 0 and 1.
C6_Witness ==
  call.op = "GetConfidence" /\ 0 < call.num /\ call.num < call.den

\* C7: after one buffer that ends on a character boundary and holds at most
\* MAX_REL_THRESHOLD adjacent hiragana pairs, mTotalRel is the number of
\* hiragana characters immediately preceded by a hiragana character and
\* mRelSample[c] the number of those pairs whose table entry (row = preceding
\* order, column = current order) is c.  Shift-JIS order 1 then order 3:
\* mTotalRel = 1, mRelSample[4] = 1, confidence 1.
C7_SingleBufferCounts ==
  /\ (tracked /\ nCalls = 1 /\ truePend = 0) =>
        LET o == OrdersDropping(enc, stream, {})
        IN  Cardinality(Pairs(o)) <= MAX_REL_THRESHOLD =>
              /\ mTotalRel = Cardinality(Pairs(o))
              /\ \A c \in Categories :
                    mRelSample[c] =
                      Cardinality({ k \in Pairs(o) :
                                      jp2CharContext[o[k - 1] + 1][o[k] + 1] = c })
  /\ (tracked /\ nCalls = 1 /\ enc = "SJIS" /\ stream = << 130, 160, 130, 162 >>) =>
        /\ mTotalRel = 1
        /\ mRelSample = [ c \in Categories |-> IF c = 4 THEN 1 ELSE 0 ]
        /\ GetConfidenceOp(Fields) = [ num |-> 1, den |-> 1 ]

\* One EUC-JP buffer: hiragana order 0 then order 3, then a non-hiragana
\* character.
C7_Witness ==
  /\ tracked /\ nCalls = 1 /\ enc = "EUCJP"
  /\ stream = << 164, 161, 164, 164, 161, 161 >>
  /\ mTotalRel = 1 /\ mRelSample[2] = 1

\* C8: when a buffer handed to an object that is still unfinished after the
\* call ends right after the lead byte of a two-byte character,
\* mLastCharOrder is -1 after that call, so the character that follows the
\* split one is paired with nothing before it.
C8_SplitLeadClearsLast ==
  ( call.op = "HandleData" /\ ~mDone /\ call.aLen > 0
      /\ trueLen = 2 /\ truePend = 1 ) => mLastCharOrder = -1

\* C9: a HandleData call on an unfinished object with a buffer at least
\* mNeedToSkipCharNum long, whose scan does not end in a split character,
\* leaves mNeedToSkipCharNum = 0.
C9_SkipIsConsumed ==
  [][ ( call'.op = "HandleData" /\ ~mDone /\ call'.aLen >= mNeedToSkipCharNum
          /\ ~call'.split ) => mNeedToSkipCharNum' = 0 ]_vars

\* C10: a HandleData call on an unfinished object with a buffer shorter than
\* mNeedToSkipCharNum decodes nothing and carries the rest of the skip over:
\* mNeedToSkipCharNum becomes mNeedToSkipCharNum - aLen.
C10_ShortBufferCarriesSkip ==
  [][ ( call'.op = "HandleData" /\ ~mDone /\ call'.aLen < mNeedToSkipCharNum ) =>
        /\ call'.decoded = 0
        /\ mNeedToSkipCharNum' = mNeedToSkipCharNum - call'.aLen ]_vars

\* C11: no HandleData call reads a byte at an offset >= aLen: the highest
\* offset read, *(str+1) of GetOrder included, is below the buffer length.
C11_NoReadPastBuffer ==
  call.op = "HandleData" => call.maxRead < call.aLen

\* C13: a HandleData call with an empty buffer is a no-op: no field changes
\* and no byte is read.
C13_EmptyBufferIsNoOp ==
  [][ ( call'.op = "HandleData" /\ call'.aLen = 0 ) =>
        /\ Analysis' = Analysis
        /\ mDataThreshold' = mDataThreshold
        /\ call'.decoded = 0
        /\ call'.maxRead = -1 ]_vars

\* An empty buffer handed to an unfinished object that has a skip pending
\* and a hiragana character behind it.
C13_Witness ==
  /\ call.op = "HandleData" /\ call.aLen = 0 /\ call.active
  /\ mNeedToSkipCharNum > 0 /\ mLastCharOrder # -1

\* C14: over HandleData calls mTotalRel and every mRelSample entry never
\* decrease, mTotalRel grows by at most one per decoded character, and on a
\* finished object mTotalRel does not change.
C14_CountsOnlyGrow ==
  [][ call'.op = "HandleData" =>
        /\ mTotalRel' >= mTotalRel
        /\ \A c \in Categories : mRelSample'[c] >= mRelSample[c]
        /\ mTotalRel' - mTotalRel <= call'.decoded
        /\ (mDone => mTotalRel' = mTotalRel) ]_vars

\* A HandleData call that counted a pair and finished the analysis with it.
C14_Witness ==
  /\ call.op = "HandleData" /\ call.active /\ mDone
  /\ mTotalRel = MAX_REL_THRESHOLD + 1

\* C15: a HandleData call invokes GetOrder at most aLen times: every byte
\* length the decoders return is at least 1, so each iteration advances i.
C15_DecodesAtMostLenTimes ==
  /\ call.op = "HandleData" => call.decoded <= call.aLen
  /\ \A b \in 0..255 : CharLen(enc, b) >= 1

\* A buffer of several bytes, each decoded as a character of its own.
C15_Witness ==
  call.op = "HandleData" /\ call.aLen >= 2 /\ call.decoded = call.aLen

\* C12: Reset leaves the configured data threshold as it was: the value of
\* mDataThreshold after a Reset call equals its value before the call.
C12_ResetKeepsThreshold ==
  [][ call'.op = "Reset" => mDataThreshold' = mDataThreshold ]_vars

\* C16: for every pair of bytes (b0, b1), the Shift-JIS GetOrder sets charLen
\* to 2 if b0 is in [0x81,0x9f] or [0xe0,0xfc] and to 1 otherwise, returns
\* b1 - 0x9f if b0 = 0x82 and b1 is in [0x9f,0xf1] and -1 otherwise; the
\* order is -1 or in 0..82, and it is non-negative only with charLen = 2.
C16_SJISGetOrderContract ==
  ( call.op = "GetOrder" /\ call.returned /\ enc = "SJIS" ) =>
      /\ call.charLen = ( IF call.b0 \in (129..159) \cup (224..252)
                          THEN 2 ELSE 1 )
      /\ call.order = ( IF call.b0 = 130 /\ call.b1 \in 159..241
                        THEN call.b1 - 159 ELSE -1 )
      /\ call.order \in -1..82
      /\ ( call.order >= 0 => call.charLen = 2 )

C16_Witness ==
  /\ call.op = "GetOrder" /\ call.returned /\ enc = "SJIS"
  /\ call.b0 = 130 /\ call.b1 = 241
  /\ call.order = 82 /\ call.charLen = 2

\* C17: for every pair of bytes (b0, b1), the EUC-JP GetOrder sets charLen to
\* 2 if b0 = 0x8e or b0 is in [0xa1,0xfe], to 3 if b0 = 0x8f and to 1
\* otherwise, returns b1 - 0xa1 if b0 = 0xa4 and b1 is in [0xa1,0xf3] and -1
\* otherwise; the order is -1 or in 0..82, and it is non-negative only with
\* charLen = 2, never with a three-byte character.
C17_EUCJPGetOrderContract ==
  ( call.op = "GetOrder" /\ call.returned /\ enc = "EUCJP" ) =>
      /\ call.charLen = ( IF call.b0 \in {142} \cup (161..254) THEN 2
                          ELSE IF call.b0 = 143 THEN 3 ELSE 1 )
      /\ call.order = ( IF call.b0 = 164 /\ call.b1 \in 161..243
                        THEN call.b1 - 161 ELSE -1 )
      /\ call.order \in -1..82
      /\ ( call.order >= 0 => call.charLen = 2 )

C17_Witness ==
  /\ call.op = "GetOrder" /\ call.returned /\ enc = "EUCJP"
  /\ \/ call.b0 = 143 /\ call.charLen = 3 /\ call.order = -1
     \/ call.b0 = 164 /\ call.b1 = 243 /\ call.order = 82

\* C18: in every reachable state mDone holds exactly when mTotalRel is above
\* MAX_REL_THRESHOLD, and mTotalRel is at most MAX_REL_THRESHOLD + 1; only
\* HandleData makes the object finished, and a HandleData call that does so,
\* whatever buffer it is handed, stops at the pair that takes mTotalRel over
\* the bound: the last byte it reads is the last byte of that pair's second
\* character, and no byte after it is read.
C18_DoneAtThreshold ==
  /\ []( /\ mDone <=> (mTotalRel > MAX_REL_THRESHOLD)
         /\ mTotalRel <= MAX_REL_THRESHOLD + 1 )
  /\ [][ ( ~mDone /\ mDone' ) =>
           /\ call'.op = "HandleData"
           /\ mTotalRel' = MAX_REL_THRESHOLD + 1 ]_vars
  /\ []( ~mDone =>
           \A aBuf \in Chunks(enc, Room) : \A oob \in PastEnd(enc, aBuf) :
             LET t    == HandleDataOp(enc, aBuf, Len(aBuf), oob, Fields)
                 from == mNeedToSkipCharNum
                 seg  == Segment(enc, SubSeq(aBuf, from + 1, Len(aBuf)), 0)
                 o    == << mLastCharOrder >>
                           \o [ k \in 1..Len(seg) |-> seg[k].order ]
                 over == { k \in Pairs(o) :
                             Cardinality({ j \in Pairs(o) : j <= k })
                               = MAX_REL_THRESHOLD + 1 - mTotalRel }
             IN  t.mDone =>
                   /\ over # {}
                   /\ \A k \in over :
                        t.maxRead
                          = from + seg[k - 1].start + seg[k - 1].len - 1 )

\* A call that finished the object with bytes of its buffer left unread.
C18_Witness ==
  /\ call.op = "HandleData" /\ call.active /\ mDone
  /\ mTotalRel = MAX_REL_THRESHOLD + 1
  /\ call.maxRead >= 0 /\ call.maxRead < call.aLen - 1

\* Every entry of jp2CharContext is a category.
TableEntriesInRange ==
  \A last \in 0..82 : \A order \in 0..82 : Category(last, order) \in Categories

\* Whatever two bytes it is called on, either GetOrder returns -1 or an index
\* of jp2CharContext.
OrdersInRange ==
  \A e \in Encodings : \A b0 \in 0..255 : \A b1 \in 0..255 :
    GetOrder(e, << b0, b1 >>, 2, 0, 0).order \in -1..82

\* C19: in every reachable state mLastCharOrder is -1 or in 0..82; the two
\* indices of a jp2CharContext lookup are a value of mLastCharOrder and a
\* value GetOrder returned, both other than -1, so both are in 0..82; every
\* entry looked up is in 0..5, so each relation counted below the bound has
\* gone to one of the six entries of mRelSample and to nothing else.
C19_IndicesInBounds ==
  /\ mLastCharOrder \in -1..82
  /\ OrdersInRange
  /\ TableEntriesInRange
  /\ DOMAIN mRelSample = Categories
  /\ mRelSample[0] + mRelSample[1] + mRelSample[2] + mRelSample[3]
       + mRelSample[4] + mRelSample[5]
     = mTotalRel - (IF mDone THEN 1 ELSE 0)

\* A relation has been looked up and counted, and the last character is a
\* hiragana, the row of the next lookup.
C19_Witness ==
  /\ call.op = "HandleData" /\ call.active /\ ~mDone
  /\ mLastCharOrder \in 0..82
  /\ mTotalRel = 1
  /\ \E c \in Categories : mRelSample[c] = 1

\* C20: in every reachable state mNeedToSkipCharNum is at most the longest
\* character's length minus one, 1 for Shift-JIS and 2 for EUC-JP; and a
\* HandleData call that assigns mNeedToSkipCharNum assigns it a value that is
\* not zero and ends with mLastCharOrder = -1; no other path of HandleData
\* changes mNeedToSkipCharNum.
C20_SkipIsBounded ==
  /\ []( mNeedToSkipCharNum <= (IF enc = "SJIS" THEN 1 ELSE 2) )
  /\ [][ call'.op = "HandleData" =>
           /\ call'.split =>
                /\ mNeedToSkipCharNum' \in 1..(IF enc = "SJIS" THEN 1 ELSE 2)
                /\ mLastCharOrder' = -1
           /\ mNeedToSkipCharNum' # mNeedToSkipCharNum => call'.split ]_vars

\* An EUC-JP buffer that ends on the first byte of a three-byte character,
\* after at least one complete character.
C20_Witness ==
  /\ call.op = "HandleData" /\ call.split /\ enc = "EUCJP"
  /\ call.decoded >= 2
  /\ mNeedToSkipCharNum = 2 /\ mLastCharOrder = -1

====
